---------------------------- MODULE Spec2Model ----------------------------
(***************************************************************************)
(* samples/python/network_api_pytorch_mnist/sample.py as a state machine.  *)
(*                                                                         *)
(* The script is one thread of control: main() calls the trainer, builds a *)
(* TensorRT network layer by layer from the trained weights, compiles it,  *)
(* writes the serialized engine to mnist.trt, reads it back, and runs one  *)
(* inference.  Every statement of main(), build_engine() and               *)
(* populate_network() is one action; pc is the statement about to run.     *)
(*                                                                         *)
(* The libraries the script calls (tensorrt, the trainer in model.py, the  *)
(* helpers in common.py, the file system) are not in the script.  A call   *)
(* into them either succeeds, raises, or - for the TensorRT calls that     *)
(* report failure through their return value - returns None.  The script   *)
(* has no try/except and never tests a return value, so what happens       *)
(* after each outcome is decided by the script alone.                      *)
(***************************************************************************)
EXTENDS Integers, Sequences, FiniteSets, TLC

(***************************************************************************)
(* Bounds of the model.                                                    *)
(***************************************************************************)
\* How many of the eight weight tensors may be absent or mis-shaped at once.
MaxDefects == 1
\* A mis-shaped tensor has its last dimension enlarged by 1..MaxShapeDelta.
MaxShapeDelta == 1
\* The held-out test set has images 1..NumImages.
NumImages == 2
\* Output scores are integers in 0..MaxScore.
MaxScore == 1

(***************************************************************************)
(* ModelData (sample.py 35-40).                                            *)
(***************************************************************************)
INPUT_NAME == "data"
INPUT_SHAPE == <<1, 1, 28, 28>>
OUTPUT_NAME == "prob"
OUTPUT_SIZE == 10

None == [kind |-> "none"]

(***************************************************************************)
(* The weight set.  Keys in the order populate_network looks them up.      *)
(***************************************************************************)
WeightKeys ==
    << "conv1.weight", "conv1.bias", "conv2.weight", "conv2.bias",
       "fc1.weight", "fc1.bias", "fc2.weight", "fc2.bias" >>

KeySet == { WeightKeys[i] : i \in 1..Len(WeightKeys) }

\* The tensor shapes the trainer's network has (spec section 8).
TrainedShape(k) ==
    CASE k = "conv1.weight" -> <<20, 1, 5, 5>>
      [] k = "conv1.bias"   -> <<20>>
      [] k = "conv2.weight" -> <<50, 20, 5, 5>>
      [] k = "conv2.bias"   -> <<50>>
      [] k = "fc1.weight"   -> <<500, 800>>
      [] k = "fc1.bias"     -> <<500>>
      [] k = "fc2.weight"   -> <<10, 500>>
      [] k = "fc2.bias"     -> <<10>>

Absent == <<>>

\* s with its last dimension enlarged by d.
Bump(s, d) == [s EXCEPT ![Len(s)] = @ + d]

\* What a weight set may hold under key k: the trained shape, a wrong
\* shape, or nothing.
ShapeChoices(k) ==
    {TrainedShape(k), Absent} \cup { Bump(TrainedShape(k), d) : d \in 1..MaxShapeDelta }

AllTrained == [k \in KeySet |-> TrainedShape(k)]

\* The weight sets with at most n tensors absent or mis-shaped.
RECURSIVE WithDefects(_)
WithDefects(n) ==
    IF n = 0
    THEN {AllTrained}
    ELSE LET fewer == WithDefects(n - 1)
         IN  fewer \cup UNION { { [w EXCEPT ![k] = s] :
                                      w \in fewer, s \in ShapeChoices(k) } :
                                  k \in KeySet }

\* The weight sets build_engine is exercised on.
WeightSets == WithDefects(MaxDefects)

HasKey(w, k) == w[k] # Absent

RECURSIVE Product(_)
Product(s) == IF s = <<>> THEN 1 ELSE Head(s) * Product(Tail(s))

\* Number of elements of a tensor of shape s.
Count(s) == Product(s)

(***************************************************************************)
(* The network definition that populate_network fills in.                  *)
(* Tensor 0 is the network input; tensor i is the output of layer i.       *)
(***************************************************************************)
EmptyNetwork == [inputs |-> <<>>, layers |-> <<>>, outputs |-> <<>>, names |-> <<>>]

\* One layer: kind, the tensor it reads, its output count (maps or
\* num_outputs), its window (kernel_shape or window_size), its stride, and
\* the kernel and bias arrays it was given (by shape).
Layer(kind, type, input, n, window, stride, w, b) ==
    [kind |-> kind, type |-> type, input |-> input, n |-> n, window |-> window,
     stride |-> stride, kernel |-> w, bias |-> b]

NoArray == <<>>
NoWindow == <<>>

\* The stride a convolution or pooling layer has until one is assigned.
DefaultStride == <<1, 1>>

\* network.add_convolution(input, num_output_maps, kernel_shape, kernel, bias)
Convolution(input, n, kshape, w, b) ==
    Layer("convolution", "", input, n, kshape, DefaultStride, w, b)

\* network.add_pooling(input, type, window_size)
Pooling(input, type, window) ==
    Layer("pooling", type, input, 0, window, DefaultStride, NoArray, NoArray)

\* network.add_fully_connected(input, num_outputs, kernel, bias)
FullyConnected(input, n, w, b) ==
    Layer("fully_connected", "", input, n, NoWindow, NoWindow, w, b)

\* network.add_activation(input, type)
Activation(input, type) ==
    Layer("activation", type, input, 0, NoWindow, NoWindow, NoArray, NoArray)

AddInput(net, name, shape) ==
    [net EXCEPT !.inputs = Append(@, [name |-> name, shape |-> shape])]

AddLayer(net, l) == [net EXCEPT !.layers = Append(@, l)]

\* layer.stride = s on the layer added last.
SetStride(net, s) == [net EXCEPT !.layers[Len(net.layers)].stride = s]

\* get_output(0) of the layer added last.
LastOutput(net) == Len(net.layers)

\* Output extent of a sliding window of size k moved by s over n cells.
Slide(n, k, s) == ((n - k) \div s) + 1

\* Shape (C,H,W) of tensor t of the network, as TensorRT infers it.
RECURSIVE ShapeOf(_, _)
ShapeOf(net, t) ==
    IF t = 0
    THEN Tail(net.inputs[1].shape)
    ELSE LET l  == net.layers[t]
             in == ShapeOf(net, l.input)
         IN  CASE l.kind = "convolution" ->
                     << l.n, Slide(in[2], l.window[1], l.stride[1]),
                             Slide(in[3], l.window[2], l.stride[2]) >>
               [] l.kind = "pooling" ->
                     << in[1], Slide(in[2], l.window[1], l.stride[1]),
                               Slide(in[3], l.window[2], l.stride[2]) >>
               [] l.kind = "fully_connected" -> << l.n, 1, 1 >>
               [] OTHER -> in

\* The builder's validation of one layer: the arrays it was given hold as
\* many elements as its parameters and input require.
LayerValid(net, t) ==
    LET l  == net.layers[t]
        in == ShapeOf(net, l.input)
    IN  CASE l.kind = "convolution" ->
                /\ Count(l.kernel) = l.n * in[1] * l.window[1] * l.window[2]
                /\ Count(l.bias) = l.n
          [] l.kind = "fully_connected" ->
                /\ Count(l.kernel) = l.n * Count(in)
                /\ Count(l.bias) = l.n
          [] OTHER -> TRUE

NetworkValid(net) ==
    /\ Len(net.inputs) >= 1
    /\ Len(net.outputs) >= 1
    /\ \A t \in 1..Len(net.layers) : LayerValid(net, t)

\* common.GiB(val) = val * (1 << 30).
GiB(val) == val * (2 ^ 30)

(***************************************************************************)
(* The serialized engine.  The format belongs to TensorRT; the script      *)
(* moves it as bytes.  Here: a header, the binding metadata, a checksum.   *)
(***************************************************************************)
PlanHeader == <<112, 116, 114, 116>>

RECURSIVE Sum(_)
Sum(s) == IF s = <<>> THEN 0 ELSE Head(s) + Sum(Tail(s))

Checksum(s) == Sum(s) % 256

EngineOf(net) ==
    [kind |-> "engine",
     inputShape |-> net.inputs[1].shape,
     outputSize |-> Count(ShapeOf(net, net.outputs[1]))]

\* ICudaEngine.serialize()
Serialize(e) ==
    LET body == PlanHeader \o e.inputShape \o <<e.outputSize>>
    IN  body \o <<Checksum(body)>>

PlanLen == Len(PlanHeader) + Len(INPUT_SHAPE) + 2

WellFormed(bytes) ==
    /\ Len(bytes) = PlanLen
    /\ SubSeq(bytes, 1, Len(PlanHeader)) = PlanHeader
    /\ bytes[PlanLen] = Checksum(SubSeq(bytes, 1, PlanLen - 1))

\* Runtime.deserialize_cuda_engine(bytes), for well-formed bytes.
Deserialize(bytes) ==
    [kind |-> "engine",
     inputShape |-> SubSeq(bytes, Len(PlanHeader) + 1, PlanLen - 2),
     outputSize |-> bytes[PlanLen - 1]]

\* What a damaged copy of bytes may look like: cut short, emptied, or with
\* one byte changed.
Corruptions(bytes) ==
    {<<>>}
      \cup { SubSeq(bytes, 1, n) : n \in 1..(Len(bytes) - 1) }
      \cup { [bytes EXCEPT ![i] = (@ + 1) % 256] : i \in 1..Len(bytes) }

(***************************************************************************)
(* numpy.argmax: the index (from 0) of the first largest entry.            *)
(***************************************************************************)
Max(s) == CHOOSE m \in {s[i] : i \in 1..Len(s)} : \A i \in 1..Len(s) : s[i] <= m

ArgMax(s) ==
    (CHOOSE i \in 1..Len(s) :
        /\ s[i] = Max(s)
        /\ \A j \in 1..(i - 1) : s[j] < s[i]) - 1

\* The score vectors of length n an inference may return: the top score at
\* p, a score s at q, zero elsewhere.
Scores(n, p, q, s) ==
    [i \in 1..n |-> IF i = p THEN MaxScore ELSE IF i = q THEN s ELSE 0]

ScoreVectors(n) ==
    { Scores(n, p, q, s) : p \in 1..n, q \in 1..n, s \in 0..MaxScore }

(***************************************************************************)
(* State.                                                                  *)
(***************************************************************************)
VARIABLES
    pc,         \* the statement about to run; "done" or "failed" at the end
    trace,      \* the statements run so far, in order
    failedAt,   \* the first statement whose call failed, "" while none has
    trt_v7,     \* sample.py 27
    disk0,      \* mnist.trt as the run found it
    tampered,   \* whether something else has rewritten mnist.trt
    weights,    \* main: weights
    network,    \* build_engine: network
    config,     \* build_engine: config
    compiled,   \* the arguments of the compile call, once made
    plan,       \* build_engine: plan
    engine,     \* main: engine
    built,      \* what build_engine returned
    disk,       \* mnist.trt
    f,          \* main: f
    serOut,     \* what engine.serialize() returned
    deserIn,    \* what main passed to deserialize_cuda_engine
    bufs,       \* main: inputs, outputs (host side)
    context,    \* main: context
    case_num,   \* main: case_num, -1 while unbound
    output,     \* main: output, empty while unbound
    pred,       \* main: pred, -1 while unbound
    stdout      \* the lines printed

ctl      == <<pc, trace, failedAt>>
envVars  == <<trt_v7, disk0, tampered>>
netVars  == <<network, config, compiled, plan>>
engVars  == <<engine, built>>
fileVars == <<disk, f, serOut, deserIn>>
runVars  == <<bufs, context, case_num, output, pred, stdout>>
vars     == <<ctl, envVars, weights, netVars, engVars, fileVars, runVars>>

Unbound  == [kind |-> "unbound"]
Runtime  == [kind |-> "runtime"]
Bytes(b) == [kind |-> "bytes", data |-> b]

NoFile   == [exists |-> FALSE, data |-> <<>>]
File(b)  == [exists |-> TRUE, data |-> b]
NoHandle == [mode |-> "none", buf |-> <<>>]

\* What mnist.trt may hold before the run: nothing, or an older artifact.
OldArtifact == PlanHeader \o <<1, 1, 28, 28, 10, 0>>

Init ==
    /\ pc = "add_help"
    /\ trace = <<>>
    /\ failedAt = ""
    /\ trt_v7 \in BOOLEAN
    /\ disk0 \in {NoFile, File(<<>>), File(OldArtifact)}
    /\ tampered = FALSE
    /\ weights = Unbound
    /\ network = Unbound
    /\ config = Unbound
    /\ compiled = Unbound
    /\ plan = Unbound
    /\ engine = Unbound
    /\ built = Unbound
    /\ disk = disk0
    /\ f = NoHandle
    /\ serOut = Unbound
    /\ deserIn = Unbound
    /\ bufs = Unbound
    /\ context = Unbound
    /\ case_num = -1
    /\ output = <<>>
    /\ pred = -1
    /\ stdout = <<>>

(***************************************************************************)
(* How a statement ends.                                                   *)
(***************************************************************************)
FirstFailure(stmt) == IF failedAt = "" THEN stmt ELSE failedAt

\* The statement completes and control moves on.
Returns(stmt, to) ==
    /\ pc' = to
    /\ trace' = Append(trace, stmt)
    /\ failedAt' = failedAt

\* The call in the statement raises: nothing in the script catches it.
Raises(stmt) ==
    /\ pc' = "failed"
    /\ trace' = Append(trace, stmt)
    /\ failedAt' = FirstFailure(stmt)

\* The call in the statement fails and reports it by returning None: the
\* script does not look at the value and moves on.
ReturnsNone(stmt, to) ==
    /\ pc' = to
    /\ trace' = Append(trace, stmt)
    /\ failedAt' = FirstFailure(stmt)

(***************************************************************************)
(* main(), lines 104-108.                                                  *)
(***************************************************************************)
AddHelp ==
    /\ pc = "add_help"
    /\ Returns("add_help", "MnistModel")
    /\ UNCHANGED <<envVars, weights, netVars, engVars, fileVars, runVars>>

NewModel ==
    /\ pc = "MnistModel"
    /\ \/ Returns("MnistModel", "learn")
       \/ Raises("MnistModel")
    /\ UNCHANGED <<envVars, weights, netVars, engVars, fileVars, runVars>>

Learn ==
    /\ pc = "learn"
    /\ \/ Returns("learn", "get_weights")
       \/ Raises("learn")
    /\ UNCHANGED <<envVars, weights, netVars, engVars, fileVars, runVars>>

GetWeights ==
    /\ pc = "get_weights"
    /\ \/ /\ weights' \in WeightSets
          /\ Returns("get_weights", "build_engine")
       \/ /\ Raises("get_weights")
          /\ UNCHANGED weights
    /\ UNCHANGED <<envVars, netVars, engVars, fileVars, runVars>>

(***************************************************************************)
(* build_engine(weights), lines 78-85.                                     *)
(***************************************************************************)
\* As BuildEngineEnter, with mnist.trt opened for writing before the build.
BuildEngineEnterFileOpened ==
    /\ pc = "build_engine"
    /\ disk' = File(<<>>)
    /\ f' = [mode |-> "wb", buf |-> <<>>]
    /\ \/ /\ network' = EmptyNetwork
          /\ config' = [max_workspace_size |-> 0]
          /\ Returns("build_engine", "max_workspace_size")
       \/ /\ Raises("build_engine")
          /\ UNCHANGED <<network, config>>
    /\ UNCHANGED <<envVars, weights, compiled, plan, engVars, serOut, deserIn, runVars>>

\* 78-81: builder, network, config, runtime.
BuildEngineEnter ==
    /\ pc = "build_engine"
    /\ \/ /\ network' = EmptyNetwork
          /\ config' = [max_workspace_size |-> 0]
          /\ Returns("build_engine", "max_workspace_size")
       \/ /\ Raises("build_engine")
          /\ UNCHANGED <<network, config>>
    /\ UNCHANGED <<envVars, weights, compiled, plan, engVars, fileVars, runVars>>

\* 83: config.max_workspace_size = common.GiB(1)
SetWorkspace ==
    /\ pc = "max_workspace_size"
    /\ config' = [config EXCEPT !.max_workspace_size = GiB(1)]
    /\ Returns("max_workspace_size", "add_input")
    /\ UNCHANGED <<envVars, weights, network, compiled, plan, engVars, fileVars, runVars>>

(***************************************************************************)
(* populate_network(network, weights), lines 44-73.  weights[key] raises   *)
(* KeyError when the key is absent; the arrays are handed to the network   *)
(* as they are, no statement looks at their shape.                         *)
(***************************************************************************)
PopulateFrame == UNCHANGED <<envVars, weights, config, compiled, plan, engVars, fileVars, runVars>>

\* 44
PopulateInput ==
    /\ pc = "add_input"
    /\ network' = AddInput(network, INPUT_NAME, INPUT_SHAPE)
    /\ Returns("add_input", "conv1")
    /\ PopulateFrame

\* 46-49: input_tensor is tensor 0.
PopulateConv1 ==
    /\ pc = "conv1"
    /\ IF HasKey(weights, "conv1.weight") /\ HasKey(weights, "conv1.bias")
       THEN /\ network' = SetStride(
                   AddLayer(network,
                       Convolution(0, 20, <<5, 5>>,
                                   weights["conv1.weight"], weights["conv1.bias"])),
                   <<1, 1>>)
            /\ Returns("conv1", "pool1")
       ELSE /\ Raises("conv1")
            /\ UNCHANGED network
    /\ PopulateFrame

\* As PopulatePool1, without line 52.
PopulatePool1NoStride ==
    /\ pc = "pool1"
    /\ network' = AddLayer(network, Pooling(LastOutput(network), "MAX", <<2, 2>>))
    /\ Returns("pool1", "conv2")
    /\ PopulateFrame

\* 51-52: conv1 is the layer added last.
PopulatePool1 ==
    /\ pc = "pool1"
    /\ network' = SetStride(
            AddLayer(network, Pooling(LastOutput(network), "MAX", <<2, 2>>)),
            <<2, 2>>)
    /\ Returns("pool1", "conv2")
    /\ PopulateFrame

\* 54-57
PopulateConv2 ==
    /\ pc = "conv2"
    /\ IF HasKey(weights, "conv2.weight") /\ HasKey(weights, "conv2.bias")
       THEN /\ network' = SetStride(
                   AddLayer(network,
                       Convolution(LastOutput(network), 50, <<5, 5>>,
                                   weights["conv2.weight"], weights["conv2.bias"])),
                   <<1, 1>>)
            /\ Returns("conv2", "pool2")
       ELSE /\ Raises("conv2")
            /\ UNCHANGED network
    /\ PopulateFrame

\* As PopulatePool2, without line 60.
PopulatePool2NoStride ==
    /\ pc = "pool2"
    /\ network' = AddLayer(network, Pooling(LastOutput(network), "MAX", <<2, 2>>))
    /\ Returns("pool2", "fc1")
    /\ PopulateFrame

\* 59-60
PopulatePool2 ==
    /\ pc = "pool2"
    /\ network' = SetStride(
            AddLayer(network, Pooling(LastOutput(network), "MAX", <<2, 2>>)),
            <<2, 2>>)
    /\ Returns("pool2", "fc1")
    /\ PopulateFrame

\* 62-64
PopulateFc1 ==
    /\ pc = "fc1"
    /\ IF HasKey(weights, "fc1.weight") /\ HasKey(weights, "fc1.bias")
       THEN /\ network' = AddLayer(network,
                   FullyConnected(LastOutput(network), 500,
                                  weights["fc1.weight"], weights["fc1.bias"]))
            /\ Returns("fc1", "relu1")
       ELSE /\ Raises("fc1")
            /\ UNCHANGED network
    /\ PopulateFrame

\* 66
PopulateRelu1 ==
    /\ pc = "relu1"
    /\ network' = AddLayer(network, Activation(LastOutput(network), "RELU"))
    /\ Returns("relu1", "fc2")
    /\ PopulateFrame

\* As PopulateFc2, with weights.get(key) for weights[key]: an absent tensor
\* is passed on as an empty array.
PopulateFc2Lenient ==
    /\ pc = "fc2"
    /\ network' = AddLayer(network,
            FullyConnected(LastOutput(network), OUTPUT_SIZE,
                           weights["fc2.weight"], weights["fc2.bias"]))
    /\ Returns("fc2", "mark_output")
    /\ PopulateFrame

\* 68-70
PopulateFc2 ==
    /\ pc = "fc2"
    /\ IF HasKey(weights, "fc2.weight") /\ HasKey(weights, "fc2.bias")
       THEN /\ network' = AddLayer(network,
                   FullyConnected(LastOutput(network), OUTPUT_SIZE,
                                  weights["fc2.weight"], weights["fc2.bias"]))
            /\ Returns("fc2", "mark_output")
       ELSE /\ Raises("fc2")
            /\ UNCHANGED network
    /\ PopulateFrame

\* 72-73
PopulateMarkOutput ==
    /\ pc = "mark_output"
    /\ network' = [network EXCEPT
            !.names = Append(@, [tensor |-> LastOutput(network), name |-> OUTPUT_NAME]),
            !.outputs = Append(@, LastOutput(network))]
    /\ Returns("mark_output", "compile")
    /\ PopulateFrame

(***************************************************************************)
(* build_engine, lines 88-93.  The builder validates the network when it   *)
(* compiles it; a compile may also fail for want of memory.  A failed      *)
(* build_engine / build_serialized_network / deserialize_cuda_engine       *)
(* either raises or returns None.                                          *)
(***************************************************************************)
CompileCall(api) == [kind |-> "call", api |-> api, network |-> network, config |-> config]

\* 88-91: plan = builder.build_engine(network, config); return plan
CompileV7 ==
    /\ pc = "compile"
    /\ trt_v7
    /\ compiled' = CompileCall("build_engine")
    /\ \/ /\ NetworkValid(network)
          /\ engine' = EngineOf(network)
          /\ built' = engine'
          /\ Returns("compile", "open_w")
       \/ /\ engine' = None
          /\ built' = None
          /\ ReturnsNone("compile", "open_w")
       \/ /\ Raises("compile")
          /\ UNCHANGED engVars
    /\ UNCHANGED <<envVars, weights, network, config, plan, fileVars, runVars>>

\* 92: plan = builder.build_serialized_network(network, config)
CompileV8 ==
    /\ pc = "compile"
    /\ ~trt_v7
    /\ compiled' = CompileCall("build_serialized_network")
    /\ \/ /\ NetworkValid(network)
          /\ plan' = Bytes(Serialize(EngineOf(network)))
          /\ Returns("compile", "plan_deserialize")
       \/ /\ plan' = None
          /\ ReturnsNone("compile", "plan_deserialize")
       \/ /\ Raises("compile")
          /\ UNCHANGED plan
    /\ UNCHANGED <<envVars, weights, network, config, engVars, fileVars, runVars>>

\* As BuildDeserialize, with "return plan" for line 93.
BuildReturnsPlan ==
    /\ pc = "plan_deserialize"
    /\ engine' = plan
    /\ built' = plan
    /\ Returns("plan_deserialize", "open_w")
    /\ UNCHANGED <<envVars, weights, netVars, fileVars, runVars>>

\* 93: return runtime.deserialize_cuda_engine(plan)
BuildDeserialize ==
    /\ pc = "plan_deserialize"
    /\ \/ /\ plan.kind = "bytes"
          /\ WellFormed(plan.data)
          /\ engine' = Deserialize(plan.data)
          /\ built' = engine'
          /\ Returns("plan_deserialize", "open_w")
       \/ /\ engine' = None
          /\ built' = None
          /\ ReturnsNone("plan_deserialize", "open_w")
       \/ /\ Raises("plan_deserialize")
          /\ UNCHANGED engVars
    /\ UNCHANGED <<envVars, weights, netVars, fileVars, runVars>>

(***************************************************************************)
(* main(), lines 113-121: the engine goes to mnist.trt and comes back.     *)
(* A file opened "wb" is created or emptied.  f.write hands the bytes to   *)
(* the handle, which may pass any leading part of them on to the file at   *)
(* once and passes the rest on when it is closed.                          *)
(***************************************************************************)
\* As OpenWrite, with mode "ab": what the file holds is kept.
OpenWriteAppend ==
    /\ pc = "open_w"
    /\ \/ /\ disk' = File(disk.data)
          /\ f' = [mode |-> "ab", buf |-> <<>>]
          /\ Returns("open_w", "serialize")
       \/ /\ Raises("open_w")
          /\ UNCHANGED <<disk, f>>
    /\ UNCHANGED <<envVars, weights, netVars, engVars, serOut, deserIn, runVars>>

\* 113: f = open("mnist.trt", "wb")
OpenWrite ==
    /\ pc = "open_w"
    /\ \/ /\ disk' = File(<<>>)
          /\ f' = [mode |-> "wb", buf |-> <<>>]
          /\ Returns("open_w", "serialize")
       \/ /\ Raises("open_w")
          /\ UNCHANGED <<disk, f>>
    /\ UNCHANGED <<envVars, weights, netVars, engVars, serOut, deserIn, runVars>>

\* 114: f.write(engine.serialize())
SerializeWrite ==
    /\ pc = "serialize"
    /\ \/ /\ engine.kind = "engine"
          /\ serOut' = Bytes(Serialize(engine))
          /\ \E n \in 0..Len(serOut'.data) :
                /\ disk' = File(disk.data \o SubSeq(serOut'.data, 1, n))
                /\ f' = [f EXCEPT !.buf = @ \o SubSeq(serOut'.data, n + 1, Len(serOut'.data))]
          /\ Returns("serialize", "close_w")
       \/ /\ Raises("serialize")
          /\ UNCHANGED <<disk, f, serOut>>
    /\ UNCHANGED <<envVars, weights, netVars, engVars, deserIn, runVars>>

\* As CloseWrite, with lines 117-121 left out: the engine in memory is used.
CloseWriteNoReload ==
    /\ pc = "close_w"
    /\ disk' = File(disk.data \o f.buf)
    /\ f' = [mode |-> "closed", buf |-> <<>>]
    /\ Returns("close_w", "allocate_buffers")
    /\ UNCHANGED <<envVars, weights, netVars, engVars, serOut, deserIn, runVars>>

\* 115: f.close()
CloseWrite ==
    /\ pc = "close_w"
    /\ disk' = File(disk.data \o f.buf)
    /\ f' = [mode |-> "closed", buf |-> <<>>]
    /\ Returns("close_w", "open_r")
    /\ UNCHANGED <<envVars, weights, netVars, engVars, serOut, deserIn, runVars>>

\* 118: f = open("mnist.trt", "rb")
OpenRead ==
    /\ pc = "open_r"
    /\ \/ /\ disk.exists
          /\ f' = [mode |-> "rb", buf |-> <<>>]
          /\ Returns("open_r", "Runtime")
       \/ /\ Raises("open_r")
          /\ UNCHANGED f
    /\ UNCHANGED <<envVars, weights, netVars, engVars, disk, serOut, deserIn, runVars>>

\* 119: engine = trt.Runtime(TRT_LOGGER)
NewRuntime ==
    /\ pc = "Runtime"
    /\ engine' = Runtime
    /\ Returns("Runtime", "deserialize")
    /\ UNCHANGED <<envVars, weights, netVars, built, fileVars, runVars>>

\* 120: engine = engine.deserialize_cuda_engine(f.read())
ReadDeserialize ==
    /\ pc = "deserialize"
    /\ deserIn' = Bytes(disk.data)
    /\ \/ /\ WellFormed(disk.data)
          /\ engine' = Deserialize(disk.data)
          /\ Returns("deserialize", "close_r")
       \/ /\ engine' = None
          /\ ReturnsNone("deserialize", "close_r")
       \/ /\ Raises("deserialize")
          /\ UNCHANGED engine
    /\ UNCHANGED <<envVars, weights, netVars, built, disk, f, serOut, runVars>>

\* 121: f.close()
CloseRead ==
    /\ pc = "close_r"
    /\ f' = [mode |-> "closed", buf |-> <<>>]
    /\ Returns("close_r", "allocate_buffers")
    /\ UNCHANGED <<envVars, weights, netVars, engVars, disk, serOut, deserIn, runVars>>

(***************************************************************************)
(* main(), lines 125-134: one inference.                                   *)
(***************************************************************************)
\* The held-out images are 28x28; their labels are the digits.
ImageSize == Count(INPUT_SHAPE)
Labels == 0..(OUTPUT_SIZE - 1)

\* 125: inputs, outputs, bindings, stream = common.allocate_buffers(engine)
\* The buffers are sized from the engine's bindings; None has none.
AllocateBuffers ==
    /\ pc = "allocate_buffers"
    /\ \/ /\ engine.kind = "engine"
          /\ bufs' = [kind |-> "buffers", inSize |-> Count(engine.inputShape),
                      outSize |-> engine.outputSize, host |-> 0]
          /\ Returns("allocate_buffers", "create_execution_context")
       \/ /\ Raises("allocate_buffers")
          /\ UNCHANGED bufs
    /\ UNCHANGED <<envVars, weights, netVars, engVars, fileVars,
                   context, case_num, output, pred, stdout>>

\* 126: context = engine.create_execution_context()
CreateContext ==
    /\ pc = "create_execution_context"
    /\ \/ /\ context' = [kind |-> "context"]
          /\ Returns("create_execution_context", "load_random_test_case")
       \/ /\ context' = None
          /\ ReturnsNone("create_execution_context", "load_random_test_case")
       \/ /\ Raises("create_execution_context")
          /\ UNCHANGED context
    /\ UNCHANGED <<envVars, weights, netVars, engVars, fileVars,
                   bufs, case_num, output, pred, stdout>>

\* 128 (96-101): img, expected_output = model.get_random_testcase();
\* np.copyto(pagelocked_buffer, img); return expected_output
LoadRandomTestCase ==
    /\ pc = "load_random_test_case"
    /\ \/ \E img \in 1..NumImages, label \in Labels :
             /\ bufs.inSize = ImageSize
             /\ bufs' = [bufs EXCEPT !.host = img]
             /\ case_num' = label
             /\ Returns("load_random_test_case", "do_inference")
       \/ /\ Raises("load_random_test_case")
          /\ UNCHANGED <<bufs, case_num>>
    /\ UNCHANGED <<envVars, weights, netVars, engVars, fileVars,
                   context, output, pred, stdout>>

\* 131: [output] = common.do_inference_v2(context, ...)
DoInference ==
    /\ pc = "do_inference"
    /\ \/ /\ context.kind = "context"
          /\ output' \in ScoreVectors(bufs.outSize)
          /\ Returns("do_inference", "argmax")
       \/ /\ Raises("do_inference")
          /\ UNCHANGED output
    /\ UNCHANGED <<envVars, weights, netVars, engVars, fileVars,
                   bufs, context, case_num, pred, stdout>>

\* As TakeArgMax, counting the classes from 1.
TakeArgMaxFromOne ==
    /\ pc = "argmax"
    /\ pred' = ArgMax(output) + 1
    /\ Returns("argmax", "print_case")
    /\ UNCHANGED <<envVars, weights, netVars, engVars, fileVars,
                   bufs, context, case_num, output, stdout>>

\* 132: pred = np.argmax(output)
TakeArgMax ==
    /\ pc = "argmax"
    /\ pred' = ArgMax(output)
    /\ Returns("argmax", "print_case")
    /\ UNCHANGED <<envVars, weights, netVars, engVars, fileVars,
                   bufs, context, case_num, output, stdout>>

\* 133: print("Test Case: " + str(case_num))
PrintCase ==
    /\ pc = "print_case"
    /\ stdout' = Append(stdout, [text |-> "Test Case: ", value |-> case_num])
    /\ Returns("print_case", "print_pred")
    /\ UNCHANGED <<envVars, weights, netVars, engVars, fileVars,
                   bufs, context, case_num, output, pred>>

\* 134: print("Prediction: " + str(pred))
PrintPred ==
    /\ pc = "print_pred"
    /\ stdout' = Append(stdout, [text |-> "Prediction: ", value |-> pred])
    /\ Returns("print_pred", "done")
    /\ UNCHANGED <<envVars, weights, netVars, engVars, fileVars,
                   bufs, context, case_num, output, pred>>

(***************************************************************************)
(* Something other than the script rewrites mnist.trt after the script has *)
(* closed it and before it opens it again.                                 *)
(***************************************************************************)
Tamper ==
    /\ pc = "open_r"
    /\ ~tampered
    /\ disk.exists
    /\ \E c \in Corruptions(disk.data) : disk' = File(c)
    /\ tampered' = TRUE
    /\ UNCHANGED <<ctl, trt_v7, disk0, weights, netVars, engVars,
                   f, serOut, deserIn, runVars>>

Next ==
    \/ AddHelp \/ NewModel \/ Learn \/ GetWeights
    \/ BuildEngineEnter \/ SetWorkspace
    \/ PopulateInput \/ PopulateConv1 \/ PopulatePool1 \/ PopulateConv2
    \/ PopulatePool2 \/ PopulateFc1 \/ PopulateRelu1 \/ PopulateFc2
    \/ PopulateMarkOutput
    \/ CompileV7 \/ CompileV8 \/ BuildDeserialize
    \/ OpenWrite \/ SerializeWrite \/ CloseWrite
    \/ OpenRead \/ NewRuntime \/ ReadDeserialize \/ CloseRead
    \/ AllocateBuffers \/ CreateContext \/ LoadRandomTestCase
    \/ DoInference \/ TakeArgMax \/ PrintCase \/ PrintPred

\* The script alone.
Spec == Init /\ [][Next]_vars

NextTampered == Next \/ Tamper

\* The script, with mnist.trt exposed to other writers.
SpecTampered == Init /\ [][NextTampered]_vars

(***************************************************************************)
(* Properties.                                                             *)
(***************************************************************************)
Ran(stmt) == \E i \in 1..Len(trace) : trace[i] = stmt

LastRan == IF trace = <<>> THEN "" ELSE trace[Len(trace)]

NoRepeat == \A i, j \in 1..Len(trace) : trace[i] = trace[j] => i = j

AllPresent(w) == \A k \in KeySet : HasKey(w, k)

SomeAbsent(w) == \E k \in KeySet : ~HasKey(w, k)

MisShaped(w) == \E k \in KeySet : HasKey(w, k) /\ w[k] # TrainedShape(k)

PopulateStmts ==
    {"add_input", "conv1", "pool1", "conv2", "pool2", "fc1", "relu1", "fc2", "mark_output"}

\* The statements that run before line 113 opens mnist.trt.
BeforeOpenStmts ==
    {"add_help", "MnistModel", "learn", "get_weights", "build_engine",
     "max_workspace_size", "compile", "plan_deserialize"} \cup PopulateStmts

IsDriverStage(stmt) ==
    stmt \in {"learn", "get_weights", "build_engine", "serialize", "deserialize",
              "allocate_buffers", "load_random_test_case", "do_inference",
              "argmax", "print_case", "print_pred"}

\* C1: in a run of main() that completes, the driver's stages ran in the
\* order train, extract weights, build_engine, serialize to mnist.trt,
\* deserialize from mnist.trt, allocate buffers, draw a test case, infer,
\* arg-max, print the test case, print the prediction - each once; and in no
\* run is a statement run twice.
C1_StagesOnceInOrder ==
    /\ NoRepeat
    /\ pc = "done" =>
          SelectSeq(trace, IsDriverStage) =
              << "learn", "get_weights", "build_engine", "serialize", "deserialize",
                 "allocate_buffers", "load_random_test_case", "do_inference",
                 "argmax", "print_case", "print_pred" >>

C1_Witness == pc = "done" /\ ~trt_v7 /\ Len(stdout) = 2

\* C2: for every weight set holding all eight tensors, populate_network
\* does not fail, and when it has finished the network is: one input
\* 'data' 1x1x28x28; convolution(20, 5x5, stride 1, conv1 arrays) on the
\* input; max-pool(2x2, stride 2); convolution(50, 5x5, stride 1, conv2
\* arrays); max-pool(2x2, stride 2); fully-connected(500, fc1 arrays);
\* ReLU; fully-connected(10, fc2 arrays); each layer reading the one before;
\* the last output named 'prob' and the only one marked.
C2_FixedTopology ==
    (weights # Unbound /\ AllPresent(weights)) =>
       /\ failedAt \notin PopulateStmts
       /\ Ran("mark_output") =>
            /\ network.inputs = << [name |-> "data", shape |-> <<1, 1, 28, 28>>] >>
            /\ network.layers =
                 << Layer("convolution", "", 0, 20, <<5, 5>>, <<1, 1>>,
                          weights["conv1.weight"], weights["conv1.bias"]),
                    Layer("pooling", "MAX", 1, 0, <<2, 2>>, <<2, 2>>, <<>>, <<>>),
                    Layer("convolution", "", 2, 50, <<5, 5>>, <<1, 1>>,
                          weights["conv2.weight"], weights["conv2.bias"]),
                    Layer("pooling", "MAX", 3, 0, <<2, 2>>, <<2, 2>>, <<>>, <<>>),
                    Layer("fully_connected", "", 4, 500, <<>>, <<>>,
                          weights["fc1.weight"], weights["fc1.bias"]),
                    Layer("activation", "RELU", 5, 0, <<>>, <<>>, <<>>, <<>>),
                    Layer("fully_connected", "", 6, 10, <<>>, <<>>,
                          weights["fc2.weight"], weights["fc2.bias"]) >>
            /\ network.outputs = <<7>>
            /\ network.names = << [tensor |-> 7, name |-> "prob"] >>

C2_Witness ==
    /\ Ran("mark_output")
    /\ AllPresent(weights)
    /\ MisShaped(weights)

\* C3 as claimed: when a named weight tensor is absent or mis-shaped,
\* populate_network fails and no network with a marked output is produced.
C3_FailsOnAbsentOrMisShaped ==
    (weights # Unbound /\ (SomeAbsent(weights) \/ MisShaped(weights))) =>
       /\ network = Unbound \/ network.outputs = <<>>
       /\ ~Ran("compile")

\* C3 as amended: when a named weight tensor is absent, populate_network
\* fails at the lookup, no output is marked and nothing is compiled.  With
\* all eight present, a wrong shape does not make populate_network fail; a
\* wrong element count is then rejected by the builder at the compile
\* step, so build_engine never returns an engine.
C3_FailsOnAbsentOnly ==
    /\ (weights # Unbound /\ SomeAbsent(weights)) =>
          /\ network = Unbound \/ network.outputs = <<>>
          /\ ~Ran("compile")
          /\ pc = "failed" => failedAt \in {"build_engine", "conv1", "conv2", "fc1", "fc2"}
    /\ (weights # Unbound /\ AllPresent(weights) /\ MisShaped(weights)) =>
          /\ failedAt \notin PopulateStmts
          /\ Ran("compile") => network.outputs = <<7>>
          /\ built.kind # "engine"

C3_Witness ==
    /\ pc = "failed"
    /\ failedAt = "fc2"
    /\ ~HasKey(weights, "fc2.bias")
    /\ Len(network.layers) = 6

\* The stage of the driver a statement belongs to.
StageOf(stmt) ==
    CASE stmt \in {"MnistModel", "learn"} -> "training"
      [] stmt = "get_weights" -> "weight extraction"
      [] stmt \in {"build_engine", "max_workspace_size"} \cup PopulateStmts -> "graph building"
      [] stmt \in {"compile", "plan_deserialize"} -> "compilation"
      [] stmt \in {"open_w", "serialize", "close_w"} -> "serialization"
      [] stmt \in {"open_r", "Runtime", "deserialize", "close_r"} -> "deserialization"
      [] stmt = "allocate_buffers" -> "buffer allocation"
      [] stmt \in {"create_execution_context", "load_random_test_case", "do_inference"} ->
            "inference"
      [] OTHER -> stmt

\* C4: once a call in some stage of the driver has failed, the run ends in
\* that stage: no statement of a later stage runs.
C4_NothingRunsAfterFailure ==
    failedAt # "" => StageOf(LastRan) = StageOf(failedAt)

\* C5: when the bytes read from mnist.trt are corrupt, deserialization
\* yields no engine, and the driver goes on to none of buffer allocation,
\* context creation and inference.
C5_StopsAtCorruptArtifact ==
    (deserIn # Unbound /\ ~WellFormed(deserIn.data)) =>
       /\ engine.kind # "engine"
       /\ ~Ran("allocate_buffers")
       /\ ~Ran("create_execution_context")
       /\ ~Ran("do_inference")

\* C6: the bytes main passes to deserialize_cuda_engine are the bytes that
\* serialize() returned for the engine build_engine returned in this run,
\* all of them and nothing else, whatever mnist.trt held before and however
\* the write was buffered; and the engine the buffers are allocated for is
\* the one read back, equal to the one that was serialized.
C6_RoundTrip ==
    /\ serOut # Unbound => serOut = Bytes(Serialize(built))
    /\ deserIn # Unbound =>
          /\ deserIn = serOut
          /\ Ran("close_w")
    /\ bufs # Unbound =>
          /\ engine = Deserialize(deserIn.data)
          /\ engine = built

C6_Witness ==
    /\ bufs # Unbound
    /\ disk0 = File(OldArtifact)
    /\ disk = File(Serialize(built))

C9_ShapesAgree ==
    Ran("mark_output") =>
       /\ ShapeOf(network, 0) = <<1, 28, 28>>
       /\ ShapeOf(network, 1) = <<20, 24, 24>>
       /\ ShapeOf(network, 2) = <<20, 12, 12>>
       /\ ShapeOf(network, 3) = <<50, 8, 8>>
       /\ ShapeOf(network, 4) = <<50, 4, 4>>
       /\ Count(ShapeOf(network, 4)) = 800
       /\ TrainedShape("fc1.weight") = <<500, Count(ShapeOf(network, 4))>>
       /\ Count(ShapeOf(network, 6)) = 500
       /\ TrainedShape("fc2.weight") = <<10, Count(ShapeOf(network, 6))>>
       /\ Count(ShapeOf(network, 7)) = 10
       /\ OUTPUT_SIZE = 10
       /\ TrainedShape("conv1.weight") = <<20, ShapeOf(network, 0)[1], 5, 5>>
       /\ TrainedShape("conv2.weight") = <<50, ShapeOf(network, 2)[1], 5, 5>>
       /\ weights = AllTrained => NetworkValid(network)

C9_Witness ==
    /\ Ran("mark_output")
    /\ weights = AllTrained
    /\ built.kind = "engine"

\* C10: mnist.trt is opened for writing only after build_engine has
\* returned; until then it is as the run found it, and a run that ends
\* with an exception in training, weight extraction, graph building or
\* compilation leaves it so.
C10_FileUntouchedBeforeBuildReturns ==
    /\ Ran("open_w") => built # Unbound
    /\ ~Ran("open_w") => disk = disk0 /\ f = NoHandle
    /\ (pc = "failed" /\ LastRan \in BeforeOpenStmts) => disk = disk0

C10_Witness ==
    /\ pc = "failed"
    /\ failedAt = "compile"
    /\ disk0 = File(OldArtifact)
    /\ disk = disk0

=============================================================================
